---- MODULE Spec2Model ----
(***************************************************************************)
(* Model of the 1inch swap client: the request builders of                 *)
(* src/swap/types.rs (SwapDetailsBuilder, SwapDetailsV6Builder,            *)
(* QuoteDetailsBuilder) and the calls OneInchClient::swap and              *)
(* OneInchClient::swap_v6 of src/swap/swap.rs (parameter assembly, HTTP    *)
(* send, status classification, response decoding).                        *)
(*                                                                         *)
(* Rust values are modelled as follows.                                    *)
(*   Option<T>      None is <<>>, Some(v) is <<v>>.                        *)
(*   a moved value  builders, request descriptions and parameter vectors   *)
(*                  are taken by value (self, details, params): once a     *)
(*                  call has consumed one, the caller no longer holds it.  *)
(*   Result<T, E>   the variable ret holds the Ok/Err of the last builder  *)
(*                  call, outcome the Ok/Err of the last client call.      *)
(***************************************************************************)
EXTENDS Integers, Sequences, FiniteSets, TLC

VARIABLES
    builder,    \* the builder accumulator the caller holds (type "none": it holds none)
    ret,        \* Result of the last builder call: the error, if any
    details,    \* the request description the caller holds (type "none": none)
    pc,         \* position of the client call: idle, send, check400, checkErr, decode, done
    call,       \* which client method is running: "none", "swap", "swap_v6"
    params,     \* the Vec<(&str, String)> assembled by the running call
    response,   \* the raw response received from the transport
    effects,    \* what the running call has done to its collaborators, in order
    outcome,    \* Result of the client call
    client,     \* the OneInchClient every call borrows as &self
    tasks       \* the calls that run concurrently on the client, one per task

vars == <<builder, ret, details, pc, call, params, response, effects, outcome,
          client, tasks>>

----------------------------------------------------------------------------
(* Option<T> *)

None == <<>>
Some(v) == <<v>>
IsSome(o) == o # None
Unwrap(o) == o[1]

----------------------------------------------------------------------------
(* Bounds and input domains *)

\* Largest number of distinct optional fields one accumulator gets set.
MaxOptional == 1
\* The number of optional fields a builder has set, in the specification of
\* the order of the parameters.
MaxOrderOptional == 2
\* The number of calls that run concurrently on one client.
NumTasks == 2

\* The range limits of the checked setters.
MaxSlippage == 50
MaxFee == 3

\* Values handed to the setters.
SrcInputs == {"A"}
DstInputs == {"B"}
AmountInputs == {"1000"}
FromInputs == {"0xabc"}
OriginInputs == {"0xdef"}
StringInputs == {"x"}
U128Inputs == {0, 10}
SlippageInputs == {0, MaxSlippage, MaxSlippage + 1, 102}
FeeInputs == {0, MaxFee, MaxFee + 1, 255}

----------------------------------------------------------------------------
(* Results and errors of the builders (types.rs 7-31) *)

NoError == [enum |-> "", variant |-> "", field |-> ""]
SwapDetailsBuilderError(variant, field) ==
    [enum |-> "SwapDetailsBuilderError", variant |-> variant, field |-> field]
QuoteDetailsBuilderError(variant, field) ==
    [enum |-> "QuoteDetailsBuilderError", variant |-> variant, field |-> field]

\* Result<T, E>: val is meaningful only when ok, err only when not ok.
Ok(v) == [ok |-> TRUE, val |-> v, err |-> NoError]
Err(e) == [ok |-> FALSE, val |-> None, err |-> e]

NoFields == [x \in {} |-> None]
NoBuilder == [type |-> "none", f |-> NoFields]
NoDetails == [type |-> "none", f |-> NoFields]

----------------------------------------------------------------------------
(* The fields of the three builders *)

SwapDetailsBuilderRequired == {"src", "dst", "amount", "from_addr", "slippage"}
SwapDetailsV6BuilderRequired == {"src", "dst", "amount", "from", "origin", "slippage"}
QuoteDetailsBuilderRequired == {"src", "dst", "amount"}

QuoteOptional ==
    {"fee", "protocols", "gas_price", "complexity_level", "parts", "main_route_parts",
     "gas_limit", "include_tokens_info", "include_protocols", "include_gas",
     "connector_tokens"}
SwapOptional ==
    QuoteOptional \cup {"permit", "receiver", "referrer", "disable_estimate",
                        "allow_partial_fill"}
SwapV6Optional == SwapOptional \cup {"use_permit2"}

RequiredOf(type) ==
    CASE type = "SwapDetailsBuilder" -> SwapDetailsBuilderRequired
      [] type = "SwapDetailsV6Builder" -> SwapDetailsV6BuilderRequired
      [] type = "QuoteDetailsBuilder" -> QuoteDetailsBuilderRequired
      [] OTHER -> {}
OptionalOf(type) ==
    CASE type = "SwapDetailsBuilder" -> SwapOptional
      [] type = "SwapDetailsV6Builder" -> SwapV6Optional
      [] type = "QuoteDetailsBuilder" -> QuoteOptional
      [] OTHER -> {}
FieldsOf(type) == RequiredOf(type) \cup OptionalOf(type)

\* The values a setter of the field may be handed, by the field's Rust type.
InputsOf(field) ==
    CASE field = "src" -> SrcInputs
      [] field = "dst" -> DstInputs
      [] field = "amount" -> AmountInputs
      [] field \in {"from", "from_addr"} -> FromInputs
      [] field = "origin" -> OriginInputs
      [] field \in {"protocols", "gas_price", "connector_tokens", "permit", "receiver",
                    "referrer"} -> StringInputs
      [] field \in {"complexity_level", "parts", "main_route_parts", "gas_limit"} -> U128Inputs
      [] field \in {"include_tokens_info", "include_protocols", "include_gas",
                    "disable_estimate", "allow_partial_fill", "use_permit2"} -> BOOLEAN
      [] field = "slippage" -> SlippageInputs
      [] field = "fee" -> FeeInputs

\* #[derive(Default)]: every field None.
SwapDetailsBuilder_new ==
    [type |-> "SwapDetailsBuilder", f |-> [x \in FieldsOf("SwapDetailsBuilder") |-> None]]
SwapDetailsV6Builder_new ==
    [type |-> "SwapDetailsV6Builder", f |-> [x \in FieldsOf("SwapDetailsV6Builder") |-> None]]
QuoteDetailsBuilder_new ==
    [type |-> "QuoteDetailsBuilder", f |-> [x \in FieldsOf("QuoteDetailsBuilder") |-> None]]

\* builder_setter!(field, T): pub fn field(mut self, v: T) -> Self, storing Some(v).
builder_setter(b, field, v) == [b EXCEPT !.f[field] = Some(v)]

\* The optional fields an accumulator has set, and the bound on their number.
OptionalSet(b) == {x \in OptionalOf(b.type) : IsSome(b.f[x])}
WithinBound(b, field) ==
    \/ field \in RequiredOf(b.type)
    \/ IsSome(b.f[field])
    \/ Cardinality(OptionalSet(b)) < MaxOptional

----------------------------------------------------------------------------
(* The checked setters (types.rs 246-262, 361-367, 505-521).  Each takes   *)
(* self by value: on Err the accumulator is dropped with the call.         *)

SwapDetailsBuilder_fee(b, fee) ==
    IF fee > MaxFee
    THEN Err(SwapDetailsBuilderError("InvalidFee", ""))
    ELSE Ok([b EXCEPT !.f.fee = Some(fee)])

\* Variant of SwapDetailsBuilder_slippage: the limit itself is rejected.
SwapDetailsBuilder_slippage_exclusive(b, slippage) ==
    IF slippage >= MaxSlippage
    THEN Err(SwapDetailsBuilderError("InvalidSlippage", ""))
    ELSE Ok([b EXCEPT !.f.slippage = Some(slippage)])

SwapDetailsBuilder_slippage(b, slippage) ==
    IF slippage > MaxSlippage
    THEN Err(SwapDetailsBuilderError("InvalidSlippage", ""))
    ELSE Ok([b EXCEPT !.f.slippage = Some(slippage)])

\* Variant of QuoteDetailsBuilder_fee: the limit is one too high.
QuoteDetailsBuilder_fee_off_by_one(b, fee) ==
    IF fee > MaxFee + 1
    THEN Err(QuoteDetailsBuilderError("InvalidFee", ""))
    ELSE Ok([b EXCEPT !.f.fee = Some(fee)])

QuoteDetailsBuilder_fee(b, fee) ==
    IF fee > MaxFee
    THEN Err(QuoteDetailsBuilderError("InvalidFee", ""))
    ELSE Ok([b EXCEPT !.f.fee = Some(fee)])

\* The v6 fee setter reports the quote builder's error type (types.rs 505).
SwapDetailsV6Builder_fee(b, fee) ==
    IF fee > MaxFee
    THEN Err(QuoteDetailsBuilderError("InvalidFee", ""))
    ELSE Ok([b EXCEPT !.f.fee = Some(fee)])

\* Variant of SwapDetailsV6Builder_slippage: the value is stored unchecked.
SwapDetailsV6Builder_slippage_unchecked(b, slippage) ==
    Ok([b EXCEPT !.f.slippage = Some(slippage)])

SwapDetailsV6Builder_slippage(b, slippage) ==
    IF slippage > MaxSlippage
    THEN Err(SwapDetailsBuilderError("InvalidSlippage", ""))
    ELSE Ok([b EXCEPT !.f.slippage = Some(slippage)])

----------------------------------------------------------------------------
(* build (types.rs 267-292, 372-390, 526-553): the struct expression       *)
(* evaluates its fields in the order written, and each `?` returns the     *)
(* first Err met.                                                          *)

\* Option::ok_or
ok_or(opt, e) == IF IsSome(opt) THEN Ok(Unwrap(opt)) ELSE Err(e)

SwapMissing(field) == SwapDetailsBuilderError("MissingField", field)
QuoteMissing(field) == QuoteDetailsBuilderError("MissingField", field)

SwapDetailsBuilder_build(b) ==
    LET src == ok_or(b.f.src, SwapMissing("src"))
        dst == ok_or(b.f.dst, SwapMissing("dst"))
        amount == ok_or(b.f.amount, SwapMissing("amount"))
        from == ok_or(b.f.from_addr, SwapMissing("from_addr"))
        slippage == ok_or(b.f.slippage, SwapMissing("slippage"))
    IN  IF ~src.ok THEN Err(src.err)
        ELSE IF ~dst.ok THEN Err(dst.err)
        ELSE IF ~amount.ok THEN Err(amount.err)
        ELSE IF ~from.ok THEN Err(from.err)
        ELSE IF ~slippage.ok THEN Err(slippage.err)
        ELSE Ok([type |-> "SwapDetails",
                 f |-> [src |-> src.val, dst |-> dst.val, amount |-> amount.val,
                        from |-> from.val, slippage |-> slippage.val]
                       @@ [x \in SwapOptional |-> b.f[x]]])

QuoteDetailsBuilder_build(b) ==
    LET src == ok_or(b.f.src, QuoteMissing("src"))
        dst == ok_or(b.f.dst, QuoteMissing("dst"))
        amount == ok_or(b.f.amount, QuoteMissing("amount"))
    IN  IF ~src.ok THEN Err(src.err)
        ELSE IF ~dst.ok THEN Err(dst.err)
        ELSE IF ~amount.ok THEN Err(amount.err)
        ELSE Ok([type |-> "QuoteDetails",
                 f |-> [src |-> src.val, dst |-> dst.val, amount |-> amount.val]
                       @@ [x \in QuoteOptional |-> b.f[x]]])

\* Variant of SwapDetailsV6Builder_build: slippage is checked before origin.
SwapDetailsV6Builder_build_slippage_first(b) ==
    LET src == ok_or(b.f.src, SwapMissing("src"))
        dst == ok_or(b.f.dst, SwapMissing("dst"))
        amount == ok_or(b.f.amount, SwapMissing("amount"))
        from == ok_or(b.f.from, SwapMissing("from"))
        origin == ok_or(b.f.origin, SwapMissing("origin"))
        slippage == ok_or(b.f.slippage, SwapMissing("slippage"))
    IN  IF ~src.ok THEN Err(src.err)
        ELSE IF ~dst.ok THEN Err(dst.err)
        ELSE IF ~amount.ok THEN Err(amount.err)
        ELSE IF ~from.ok THEN Err(from.err)
        ELSE IF ~slippage.ok THEN Err(slippage.err)
        ELSE IF ~origin.ok THEN Err(origin.err)
        ELSE Ok([type |-> "SwapDetailsV6",
                 f |-> [src |-> src.val, dst |-> dst.val, amount |-> amount.val,
                        from |-> from.val, origin |-> origin.val,
                        slippage |-> slippage.val]
                       @@ [x \in SwapV6Optional |-> b.f[x]]])

SwapDetailsV6Builder_build(b) ==
    LET src == ok_or(b.f.src, SwapMissing("src"))
        dst == ok_or(b.f.dst, SwapMissing("dst"))
        amount == ok_or(b.f.amount, SwapMissing("amount"))
        from == ok_or(b.f.from, SwapMissing("from"))
        origin == ok_or(b.f.origin, SwapMissing("origin"))
        slippage == ok_or(b.f.slippage, SwapMissing("slippage"))
    IN  IF ~src.ok THEN Err(src.err)
        ELSE IF ~dst.ok THEN Err(dst.err)
        ELSE IF ~amount.ok THEN Err(amount.err)
        ELSE IF ~from.ok THEN Err(from.err)
        ELSE IF ~origin.ok THEN Err(origin.err)
        ELSE IF ~slippage.ok THEN Err(slippage.err)
        ELSE Ok([type |-> "SwapDetailsV6",
                 f |-> [src |-> src.val, dst |-> dst.val, amount |-> amount.val,
                        from |-> from.val, origin |-> origin.val,
                        slippage |-> slippage.val]
                       @@ [x \in SwapV6Optional |-> b.f[x]]])

----------------------------------------------------------------------------
(* Parameter assembly (swap.rs 19-47, 88-119) *)

Digits == <<"0", "1", "2", "3", "4", "5", "6", "7", "8", "9">>

\* ToString for the unsigned integer types (usize, u8, u128, u16): base 10.
RECURSIVE UIntToString(_)
UIntToString(n) ==
    IF n < 10 THEN Digits[n + 1] ELSE UIntToString(n \div 10) \o Digits[(n % 10) + 1]

\* ToString for bool.
BoolToString(b) == IF b THEN "true" ELSE "false"

\* Option::map(|a| a.to_string())
MapUIntToString(opt) == IF IsSome(opt) THEN Some(UIntToString(Unwrap(opt))) ELSE None
MapBoolToString(opt) == IF IsSome(opt) THEN Some(BoolToString(Unwrap(opt))) ELSE None

\* utils::params::insert_optional_param: push (name, value) when the value is Some.
insert_optional_param(ps, name, opt) ==
    IF IsSome(opt) THEN Append(ps, <<name, Unwrap(opt)>>) ELSE ps

\* The calls of insert_optional_param one after the other, args in call order.
RECURSIVE InsertEach(_, _)
InsertEach(ps, args) ==
    IF args = <<>> THEN ps
    ELSE InsertEach(insert_optional_param(ps, Head(args)[1], Head(args)[2]), Tail(args))

\* The optional parameters both calls insert, in the order of the calls.
CommonOptionalArgs(d) ==
    << <<"disableEstimate", MapBoolToString(d.disable_estimate)>>,
       <<"allowPartialFill", MapBoolToString(d.allow_partial_fill)>>,
       <<"includeGas", MapBoolToString(d.include_gas)>>,
       <<"includeProtocols", MapBoolToString(d.include_protocols)>>,
       <<"includeTokensInfo", MapBoolToString(d.include_tokens_info)>>,
       <<"fee", MapUIntToString(d.fee)>>,
       <<"complexityLevel", MapUIntToString(d.complexity_level)>>,
       <<"parts", MapUIntToString(d.parts)>>,
       <<"mainRouteParts", MapUIntToString(d.main_route_parts)>>,
       <<"gasLimit", MapUIntToString(d.gas_limit)>>,
       <<"protocols", d.protocols>>,
       <<"gasPrice", d.gas_price>>,
       <<"connectorTokens", d.connector_tokens>>,
       <<"permit", d.permit>>,
       <<"receiver", d.receiver>>,
       <<"referrer", d.referrer>> >>

\* Variant of swap_params: an unset referrer is sent as an empty value.
swap_params_empty_referrer(d) ==
    InsertEach(<< <<"from", d.from>>,
                  <<"slippage", UIntToString(d.slippage)>>,
                  <<"src", d.src>>,
                  <<"dst", d.dst>>,
                  <<"amount", d.amount>> >>,
               CommonOptionalArgs(d))
    \o (IF IsSome(d.referrer) THEN <<>> ELSE << <<"referrer", "">> >>)

\* swap: the params vector handed to Url::parse_with_params.
swap_params(d) ==
    InsertEach(<< <<"from", d.from>>,
                  <<"slippage", UIntToString(d.slippage)>>,
                  <<"src", d.src>>,
                  <<"dst", d.dst>>,
                  <<"amount", d.amount>> >>,
               CommonOptionalArgs(d))

\* Variant of swap_v6_params: src and dst carry each other's value.
swap_v6_params_src_dst_swapped(d) ==
    InsertEach(<< <<"from", d.from>>,
                  <<"slippage", UIntToString(d.slippage)>>,
                  <<"src", d.dst>>,
                  <<"dst", d.src>>,
                  <<"amount", d.amount>>,
                  <<"origin", d.origin>> >>,
               CommonOptionalArgs(d)
               \o << <<"usePermit2", MapBoolToString(d.use_permit2)>> >>)

\* Variant of swap_v6_params: usePermit2 is inserted before the other
\* optional parameters.
swap_v6_params_permit2_first(d) ==
    InsertEach(<< <<"from", d.from>>,
                  <<"slippage", UIntToString(d.slippage)>>,
                  <<"src", d.src>>,
                  <<"dst", d.dst>>,
                  <<"amount", d.amount>>,
                  <<"origin", d.origin>> >>,
               << <<"usePermit2", MapBoolToString(d.use_permit2)>> >>
               \o CommonOptionalArgs(d))

\* swap_v6: the same with origin after amount and usePermit2 last.
swap_v6_params(d) ==
    InsertEach(<< <<"from", d.from>>,
                  <<"slippage", UIntToString(d.slippage)>>,
                  <<"src", d.src>>,
                  <<"dst", d.dst>>,
                  <<"amount", d.amount>>,
                  <<"origin", d.origin>> >>,
               CommonOptionalArgs(d)
               \o << <<"usePermit2", MapBoolToString(d.use_permit2)>> >>)

----------------------------------------------------------------------------
(* JSON documents and serde deserialization (types.rs 93-124, 163-213,     *)
(* 556-572).  A body is its raw text; serde_json::from_str reads the text  *)
(* into a document tree, which the derived Deserialize impls then check    *)
(* field by field.                                                         *)

JStr(s) == [t |-> "string", v |-> s]
JNum(n) == [t |-> "number", v |-> n]
JObj(o) == [t |-> "object", v |-> o]
JArr(a) == [t |-> "array", v |-> a]
JNull == [t |-> "null", v |-> 0]
\* Text that is no JSON document: v is serde_json's syntax error.
NotJson(msg) == [t |-> "invalid", v |-> msg]

\* Result of a deserialization: the value, or the Display of serde_json::Error.
POk(v) == [ok |-> TRUE, val |-> v, err |-> ""]
PErr(msg) == [ok |-> FALSE, val |-> None, err |-> msg]

TxJson ==
    JObj([from |-> JStr("0xabc"), to |-> JStr("0xdef"), data |-> JStr("0x"),
          value |-> JStr("0"), gasPrice |-> JStr("1"), gas |-> JNum(21000)])
TxText ==
    "{\"from\":\"0xabc\",\"to\":\"0xdef\",\"data\":\"0x\",\"value\":\"0\",\"gasPrice\":\"1\",\"gas\":21000}"

\* The response bodies the transport may deliver: raw text and its document tree.
Docs ==
    << [text |-> "{\"error\":\"Bad Request\",\"description\":\"insufficient liquidity\",\"statusCode\":400,\"requestId\":\"r-1\"}",
        json |-> JObj([error |-> JStr("Bad Request"),
                       description |-> JStr("insufficient liquidity"),
                       statusCode |-> JNum(400), requestId |-> JStr("r-1")])],
       [text |-> "{\"error\":\"Unprocessable\",\"description\":\"cannot estimate\",\"statusCode\":422,\"requestId\":\"r-2\",\"meta\":[{\"type\":\"amount\",\"value\":\"0\"}]}",
        json |-> JObj([error |-> JStr("Unprocessable"),
                       description |-> JStr("cannot estimate"),
                       statusCode |-> JNum(422), requestId |-> JStr("r-2"),
                       meta |-> JArr(<<JObj([type |-> JStr("amount"),
                                             value |-> JStr("0")])>>)])],
       [text |-> "{\"error\":\"Bad Request\",\"description\":\"d\",\"statusCode\":400,\"requestId\":\"r-3\",\"meta\":null}",
        json |-> JObj([error |-> JStr("Bad Request"), description |-> JStr("d"),
                       statusCode |-> JNum(400), requestId |-> JStr("r-3"),
                       meta |-> JNull])],
       [text |-> "{\"error\":\"Bad Request\",\"description\":\"d\",\"statusCode\":400}",
        json |-> JObj([error |-> JStr("Bad Request"), description |-> JStr("d"),
                       statusCode |-> JNum(400)])],
       [text |-> "{\"error\":\"Bad Request\",\"description\":\"d\",\"statusCode\":\"400\",\"requestId\":\"r-5\"}",
        json |-> JObj([error |-> JStr("Bad Request"), description |-> JStr("d"),
                       statusCode |-> JStr("400"), requestId |-> JStr("r-5")])],
       [text |-> "{\"error\":\"Bad Request\",\"description\":\"d\",\"statusCode\":70000,\"requestId\":\"r-6\"}",
        json |-> JObj([error |-> JStr("Bad Request"), description |-> JStr("d"),
                       statusCode |-> JNum(70000), requestId |-> JStr("r-6")])],
       [text |-> "{\"error\":\"Bad Request\",\"description\":\"d\",\"statusCode\":400,\"requestId\":\"r-7\",\"meta\":[{\"type\":\"amount\"}]}",
        json |-> JObj([error |-> JStr("Bad Request"), description |-> JStr("d"),
                       statusCode |-> JNum(400), requestId |-> JStr("r-7"),
                       meta |-> JArr(<<JObj([type |-> JStr("amount")])>>)])],
       [text |-> "<html>Bad Request</html>",
        json |-> NotJson("expected value at line 1 column 1")],
       [text |-> "{\"toAmount\":\"999\",\"tx\":" \o TxText \o "}",
        json |-> JObj([toAmount |-> JStr("999"), tx |-> TxJson])],
       [text |-> "{\"dstAmount\":\"998\",\"tx\":" \o TxText \o "}",
        json |-> JObj([dstAmount |-> JStr("998"), tx |-> TxJson])],
       [text |-> "{\"toAmount\":\"999\"}",
        json |-> JObj([toAmount |-> JStr("999")])],
       [text |-> "{\"dstAmount\":\"998\",\"tx\":{\"from\":\"0xabc\"}}",
        json |-> JObj([dstAmount |-> JStr("998"),
                       tx |-> JObj([from |-> JStr("0xabc")])])],
       [text |-> "{\"dstAmount\":\"998\"}",
        json |-> JObj([dstAmount |-> JStr("998")])],
       [text |-> "{\"fromToken\":{},\"toToken\":null,\"toAmount\":\"999\",\"dstAmount\":\"998\",\"protocols\":[[[{\"name\":\"UNISWAP\",\"part\":100,\"fromTokenAddress\":\"A\",\"toTokenAddress\":\"B\"}]]],\"tx\":" \o TxText \o "}",
        json |-> JObj([fromToken |-> JObj(NoFields), toToken |-> JNull,
                       toAmount |-> JStr("999"), dstAmount |-> JStr("998"),
                       protocols |-> JArr(<<JArr(<<JArr(<<
                           JObj([name |-> JStr("UNISWAP"), part |-> JNum(100),
                                 fromTokenAddress |-> JStr("A"),
                                 toTokenAddress |-> JStr("B")])>>)>>)>>),
                       tx |-> TxJson])] >>

BodyTexts == {Docs[i].text : i \in DOMAIN Docs} \cup {""}

\* serde_json reading a text: its document tree, or a syntax error.
JsonOf(text) ==
    IF \E i \in DOMAIN Docs : Docs[i].text = text
    THEN Docs[CHOOSE i \in DOMAIN Docs : Docs[i].text = text].json
    ELSE NotJson("EOF while parsing a value at line 1 column 0")

MissingField(k) == PErr("missing field " \o k)
InvalidType(j, expected) == PErr("invalid type: " \o j.t \o ", expected " \o expected)

U16Max == 65535

ParseString(j) == IF j.t = "string" THEN POk(j.v) ELSE InvalidType(j, "a string")
ParseU16(j) ==
    IF j.t = "number" /\ j.v >= 0 /\ j.v <= U16Max THEN POk(j.v) ELSE InvalidType(j, "u16")
\* Every non-negative number of a modelled document fits u128.
ParseU128(j) == IF j.t = "number" /\ j.v >= 0 THEN POk(j.v) ELSE InvalidType(j, "u128")
ParseF64(j) == IF j.t = "number" THEN POk(j.v) ELSE InvalidType(j, "f64")

\* A required String field of an object.
StringField(o, k) == IF k \in DOMAIN o THEN ParseString(o[k]) ELSE MissingField(k)
\* Whether an Option field is absent (missing or null).
Absent(o, k) == k \notin DOMAIN o \/ o[k].t = "null"

\* The first failed result of a sequence of results, or their values.
Collect(rs) ==
    IF \A i \in DOMAIN rs : rs[i].ok
    THEN POk([i \in DOMAIN rs |-> rs[i].val])
    ELSE rs[CHOOSE i \in DOMAIN rs : ~rs[i].ok /\ \A k \in 1..(i - 1) : rs[k].ok]

\* HttpExceptionMeta (types.rs 193-201)
ParseHttpExceptionMeta(j) ==
    IF j.t # "object" THEN InvalidType(j, "struct HttpExceptionMeta")
    ELSE LET type_field == StringField(j.v, "type")
             value == StringField(j.v, "value")
         IN  IF ~type_field.ok THEN type_field
             ELSE IF ~value.ok THEN value
             ELSE POk([type_field |-> type_field.val, value |-> value.val])

\* Option<Vec<HttpExceptionMeta>>
ParseOptionMeta(o) ==
    IF Absent(o, "meta") THEN POk(None)
    ELSE IF o.meta.t # "array" THEN InvalidType(o.meta, "a sequence")
    ELSE LET r == Collect([i \in DOMAIN o.meta.v |-> ParseHttpExceptionMeta(o.meta.v[i])])
         IN  IF r.ok THEN POk(Some(r.val)) ELSE r

\* serde_json::from_str::<SwapRequestError> (types.rs 168-186)
from_str_SwapRequestError(text) ==
    LET j == JsonOf(text)
    IN  IF j.t = "invalid" THEN PErr(j.v)
        ELSE IF j.t # "object" THEN InvalidType(j, "struct SwapRequestError")
        ELSE LET error == StringField(j.v, "error")
                 description == StringField(j.v, "description")
                 status_code == IF "statusCode" \in DOMAIN j.v
                                THEN ParseU16(j.v.statusCode)
                                ELSE MissingField("statusCode")
                 request_id == StringField(j.v, "requestId")
                 meta == ParseOptionMeta(j.v)
             IN  IF ~error.ok THEN error
                 ELSE IF ~description.ok THEN description
                 ELSE IF ~status_code.ok THEN status_code
                 ELSE IF ~request_id.ok THEN request_id
                 ELSE IF ~meta.ok THEN meta
                 ELSE POk([error |-> error.val, description |-> description.val,
                           status_code |-> status_code.val,
                           request_id |-> request_id.val, meta |-> meta.val])

\* SwapTranactionData (types.rs 113-124)
ParseSwapTranactionData(j) ==
    IF j.t # "object" THEN InvalidType(j, "struct SwapTranactionData")
    ELSE LET from == StringField(j.v, "from")
             to == StringField(j.v, "to")
             data == StringField(j.v, "data")
             value == StringField(j.v, "value")
             gas_price == StringField(j.v, "gasPrice")
             gas == IF "gas" \in DOMAIN j.v THEN ParseU128(j.v.gas) ELSE MissingField("gas")
         IN  IF ~from.ok THEN from
             ELSE IF ~to.ok THEN to
             ELSE IF ~data.ok THEN data
             ELSE IF ~value.ok THEN value
             ELSE IF ~gas_price.ok THEN gas_price
             ELSE IF ~gas.ok THEN gas
             ELSE POk([from |-> from.val, to |-> to.val, data |-> data.val,
                       value |-> value.val, gas_price |-> gas_price.val, gas |-> gas.val])

\* SelectedProtocol (types.rs 203-213)
ParseSelectedProtocol(j) ==
    IF j.t # "object" THEN InvalidType(j, "struct SelectedProtocol")
    ELSE LET name == StringField(j.v, "name")
             part == IF "part" \in DOMAIN j.v THEN ParseF64(j.v.part) ELSE MissingField("part")
             from_token_address == StringField(j.v, "fromTokenAddress")
             to_token_address == StringField(j.v, "toTokenAddress")
         IN  IF ~name.ok THEN name
             ELSE IF ~part.ok THEN part
             ELSE IF ~from_token_address.ok THEN from_token_address
             ELSE IF ~to_token_address.ok THEN to_token_address
             ELSE POk([name |-> name.val, part |-> part.val,
                       from_token_address |-> from_token_address.val,
                       to_token_address |-> to_token_address.val])

\* Vec<SelectedProtocol>, Vec<Vec<..>>, Vec<Vec<Vec<..>>>
ParseProtocols1(j) ==
    IF j.t # "array" THEN InvalidType(j, "a sequence")
    ELSE Collect([i \in DOMAIN j.v |-> ParseSelectedProtocol(j.v[i])])
ParseProtocols2(j) ==
    IF j.t # "array" THEN InvalidType(j, "a sequence")
    ELSE Collect([i \in DOMAIN j.v |-> ParseProtocols1(j.v[i])])
ParseProtocols3(j) ==
    IF j.t # "array" THEN InvalidType(j, "a sequence")
    ELSE Collect([i \in DOMAIN j.v |-> ParseProtocols2(j.v[i])])
ParseOptionProtocols(o) ==
    IF Absent(o, "protocols") THEN POk(None)
    ELSE LET r == ParseProtocols3(o.protocols) IN IF r.ok THEN POk(Some(r.val)) ELSE r

\* Option<TokenInfo>: the token metadata is kept as the object it came as.
ParseOptionTokenInfo(o, k) ==
    IF Absent(o, k) THEN POk(None)
    ELSE IF o[k].t # "object" THEN InvalidType(o[k], "struct TokenInfo")
    ELSE POk(Some(o[k].v))

\* Deserialize for SwapResponse (types.rs 94-109): the amount is toAmount.
ParseSwapResponse(j) ==
    IF j.t = "invalid" THEN PErr(j.v)
    ELSE IF j.t # "object" THEN InvalidType(j, "struct SwapResponse")
    ELSE LET from_token == ParseOptionTokenInfo(j.v, "fromToken")
             to_token == ParseOptionTokenInfo(j.v, "toToken")
             to_amount == StringField(j.v, "toAmount")
             protocols == ParseOptionProtocols(j.v)
             transaction == IF "tx" \in DOMAIN j.v
                            THEN ParseSwapTranactionData(j.v.tx)
                            ELSE MissingField("tx")
         IN  IF ~from_token.ok THEN from_token
             ELSE IF ~to_token.ok THEN to_token
             ELSE IF ~to_amount.ok THEN to_amount
             ELSE IF ~protocols.ok THEN protocols
             ELSE IF ~transaction.ok THEN transaction
             ELSE POk([type |-> "SwapResponse", from_token |-> from_token.val,
                       to_token |-> to_token.val, to_amount |-> to_amount.val,
                       protocols |-> protocols.val, transaction |-> transaction.val])

\* Variant of ParseSwapV6Response: the amount is read from toAmount.
ParseSwapV6Response_toAmount(j) ==
    IF j.t = "invalid" THEN PErr(j.v)
    ELSE IF j.t # "object" THEN InvalidType(j, "struct SwapV6Response")
    ELSE LET from_token == ParseOptionTokenInfo(j.v, "fromToken")
             to_token == ParseOptionTokenInfo(j.v, "toToken")
             dst_amount == StringField(j.v, "toAmount")
             protocols == ParseOptionProtocols(j.v)
             transaction == IF "tx" \in DOMAIN j.v
                            THEN ParseSwapTranactionData(j.v.tx)
                            ELSE MissingField("tx")
         IN  IF ~from_token.ok THEN from_token
             ELSE IF ~to_token.ok THEN to_token
             ELSE IF ~dst_amount.ok THEN dst_amount
             ELSE IF ~protocols.ok THEN protocols
             ELSE IF ~transaction.ok THEN transaction
             ELSE POk([type |-> "SwapV6Response", from_token |-> from_token.val,
                       to_token |-> to_token.val, dst_amount |-> dst_amount.val,
                       protocols |-> protocols.val, transaction |-> transaction.val])

\* Deserialize for SwapV6Response (types.rs 557-572): the amount is dstAmount.
ParseSwapV6Response(j) ==
    IF j.t = "invalid" THEN PErr(j.v)
    ELSE IF j.t # "object" THEN InvalidType(j, "struct SwapV6Response")
    ELSE LET from_token == ParseOptionTokenInfo(j.v, "fromToken")
             to_token == ParseOptionTokenInfo(j.v, "toToken")
             dst_amount == StringField(j.v, "dstAmount")
             protocols == ParseOptionProtocols(j.v)
             transaction == IF "tx" \in DOMAIN j.v
                            THEN ParseSwapTranactionData(j.v.tx)
                            ELSE MissingField("tx")
         IN  IF ~from_token.ok THEN from_token
             ELSE IF ~to_token.ok THEN to_token
             ELSE IF ~dst_amount.ok THEN dst_amount
             ELSE IF ~protocols.ok THEN protocols
             ELSE IF ~transaction.ok THEN transaction
             ELSE POk([type |-> "SwapV6Response", from_token |-> from_token.val,
                       to_token |-> to_token.val, dst_amount |-> dst_amount.val,
                       protocols |-> protocols.val, transaction |-> transaction.val])

----------------------------------------------------------------------------
(* Errors and results of the client calls (types.rs 131-161) *)

\* format!(template, args): the template and the Display of each argument.
Format(template, args) == [template |-> template, args |-> args]
NoMsg == Format("", <<>>)

\* reqwest::Error: the stage it arose in (request, body, decode) and, for a
\* decode error, the serde_json error it wraps.
ReqwestError(kind, source) == [kind |-> kind, source |-> source]
NoCause == ReqwestError("", "")

\* The error a call returns in its Box<dyn Error>: a SwapError variant, or
\* (type "reqwest::Error") a transport error boxed as it is.
NoSwapError ==
    [type |-> "", variant |-> "", cause |-> NoCause, parse |-> "", description |-> "",
     error |-> "", status_code |-> 0, request_id |-> "", msg |-> NoMsg]
Network(e) == [NoSwapError EXCEPT !.type = "SwapError", !.variant = "Network", !.cause = e]
JsonParse(e) == [NoSwapError EXCEPT !.type = "SwapError", !.variant = "JsonParse", !.parse = e]
SwapRequest(description, error, status_code, request_id) ==
    [NoSwapError EXCEPT !.type = "SwapError", !.variant = "SwapRequest",
                        !.description = description, !.error = error,
                        !.status_code = status_code, !.request_id = request_id]
Other(msg) == [NoSwapError EXCEPT !.type = "SwapError", !.variant = "Other", !.msg = msg]
Boxed(e) == [NoSwapError EXCEPT !.type = "reqwest::Error", !.cause = e]

OutOk(data) == [ok |-> TRUE, error |-> NoSwapError, data |-> Some(data)]
OutErr(e) == [ok |-> FALSE, error |-> e, data |-> None]
NoOutcome == [ok |-> FALSE, error |-> NoSwapError, data |-> None]

----------------------------------------------------------------------------
(* Responses *)

\* The status codes the transport may deliver.
Statuses == {200, 302, 400, 401, 404, 499, 500, 503, 599, 600}

\* A raw response: its status, whether its body can be read to the end, and
\* the body's text.
Responses == [status : Statuses, readable : BOOLEAN, text : BodyTexts]
NoResponse == [status |-> 0, readable |-> FALSE, text |-> ""]

\* http::StatusCode
is_client_error(status) == 500 > status /\ status >= 400
is_server_error(status) == 600 > status /\ status >= 500
canonical_reason(status) ==
    CASE status = 200 -> "OK"
      [] status = 302 -> "Found"
      [] status = 400 -> "Bad Request"
      [] status = 401 -> "Unauthorized"
      [] status = 404 -> "Not Found"
      [] status = 500 -> "Internal Server Error"
      [] status = 503 -> "Service Unavailable"
      [] OTHER -> "<unknown status code>"
\* Display for StatusCode: the number, a space, the canonical reason.
StatusDisplay(status) == UIntToString(status) \o " " \o canonical_reason(status)

\* response.text().await.unwrap_or_default(): the text, or "" when the read fails.
text_unwrap_or_default(resp) == IF resp.readable THEN resp.text ELSE ""

\* A step of a call: whether the call returns here, what it returns, and the
\* operations on the response it performed.
Returns(out, fx) == [returned |-> TRUE, outcome |-> out, effects |-> fx]
Continues == [returned |-> FALSE, outcome |-> NoOutcome, effects |-> <<>>]

\* Variant of swap_classify: a 400 body that is no structured error falls
\* through to the generic status error.
swap_classify_falls_through(resp) ==
    LET r == from_str_SwapRequestError(text_unwrap_or_default(resp))
    IN  IF resp.status = 400 /\ r.ok
        THEN Returns(OutErr(SwapRequest(r.val.description, r.val.error,
                                        r.val.status_code, r.val.request_id)),
                     <<"text", "from_str::<SwapRequestError>">>)
        ELSE IF is_client_error(resp.status) \/ is_server_error(resp.status)
        THEN Returns(OutErr(Other(Format("Server responded with error: {}",
                                         <<StatusDisplay(resp.status)>>))),
                     IF resp.status = 400
                     THEN <<"text", "from_str::<SwapRequestError>">> ELSE <<>>)
        ELSE Continues

\* Variant of swap_classify: every client error is read as a structured error.
swap_classify_decodes_all_4xx(resp) ==
    IF is_client_error(resp.status)
    THEN LET error_body == text_unwrap_or_default(resp)
             r == from_str_SwapRequestError(error_body)
         IN  Returns(IF r.ok
                     THEN OutErr(SwapRequest(r.val.description, r.val.error,
                                             r.val.status_code, r.val.request_id))
                     ELSE OutErr(Other(Format("Error parsing error response: {}",
                                              <<r.err>>))),
                     <<"text", "from_str::<SwapRequestError>">>)
    ELSE IF is_client_error(resp.status) \/ is_server_error(resp.status)
    THEN Returns(OutErr(Other(Format("Server responded with error: {}",
                                     <<StatusDisplay(resp.status)>>))),
                 <<>>)
    ELSE Continues

\* swap.rs 56-72: the status checks of swap.
swap_classify(resp) ==
    IF resp.status = 400
    THEN LET error_body == text_unwrap_or_default(resp)
             r == from_str_SwapRequestError(error_body)
         IN  Returns(IF r.ok
                     THEN OutErr(SwapRequest(r.val.description, r.val.error,
                                             r.val.status_code, r.val.request_id))
                     ELSE OutErr(Other(Format("Error parsing error response: {}",
                                              <<r.err>>))),
                     <<"text", "from_str::<SwapRequestError>">>)
    ELSE IF is_client_error(resp.status) \/ is_server_error(resp.status)
    THEN Returns(OutErr(Other(Format("Server responded with error: {}",
                                     <<StatusDisplay(resp.status)>>))),
                 <<>>)
    ELSE Continues

\* Variant of swap_v6_classify: the status code of the error is taken from
\* the response, not from the body.
swap_v6_classify_status_of_response(resp) ==
    IF resp.status = 400
    THEN LET error_body == text_unwrap_or_default(resp)
             r == from_str_SwapRequestError(error_body)
         IN  Returns(IF r.ok
                     THEN OutErr(SwapRequest(r.val.description, r.val.error,
                                             resp.status, r.val.request_id))
                     ELSE OutErr(Other(Format("Error parsing error response: {}",
                                              <<r.err>>))),
                     <<"text", "from_str::<SwapRequestError>">>)
    ELSE IF is_client_error(resp.status) \/ is_server_error(resp.status)
    THEN Returns(OutErr(Other(Format("Server responded with error: {}",
                                     <<StatusDisplay(resp.status)>>))),
                 <<>>)
    ELSE Continues

\* Variant of swap_v6_classify: the generic status check comes first.
swap_v6_classify_reordered(resp) ==
    IF is_client_error(resp.status) \/ is_server_error(resp.status)
    THEN Returns(OutErr(Other(Format("Server responded with error: {}",
                                     <<StatusDisplay(resp.status)>>))),
                 <<>>)
    ELSE IF resp.status = 400
    THEN LET error_body == text_unwrap_or_default(resp)
             r == from_str_SwapRequestError(error_body)
         IN  Returns(IF r.ok
                     THEN OutErr(SwapRequest(r.val.description, r.val.error,
                                             r.val.status_code, r.val.request_id))
                     ELSE OutErr(Other(Format("Error parsing error response: {}",
                                              <<r.err>>))),
                     <<"text", "from_str::<SwapRequestError>">>)
    ELSE Continues

\* swap.rs 128-144: the status checks of swap_v6.
swap_v6_classify(resp) ==
    IF resp.status = 400
    THEN LET error_body == text_unwrap_or_default(resp)
             r == from_str_SwapRequestError(error_body)
         IN  Returns(IF r.ok
                     THEN OutErr(SwapRequest(r.val.description, r.val.error,
                                             r.val.status_code, r.val.request_id))
                     ELSE OutErr(Other(Format("Error parsing error response: {}",
                                              <<r.err>>))),
                     <<"text", "from_str::<SwapRequestError>">>)
    ELSE IF is_client_error(resp.status) \/ is_server_error(resp.status)
    THEN Returns(OutErr(Other(Format("Server responded with error: {}",
                                     <<StatusDisplay(resp.status)>>))),
                 <<>>)
    ELSE Continues

\* swap.rs 74-79: response.json().await reads the body and deserializes it;
\* either failure is a reqwest::Error, which swap wraps as Network.
swap_decode(resp) ==
    IF ~resp.readable
    THEN Returns(OutErr(Network(ReqwestError("body", ""))), <<"json::<SwapResponse>">>)
    ELSE LET r == ParseSwapResponse(JsonOf(resp.text))
         IN  Returns(IF r.ok THEN OutOk(r.val)
                     ELSE OutErr(Network(ReqwestError("decode", r.err))),
                     <<"json::<SwapResponse>">>)

\* swap.rs 146-157: response.text().await, `text?`, then serde_json::from_str.
swap_v6_decode(resp) ==
    IF ~resp.readable
    THEN Returns(OutErr(Boxed(ReqwestError("body", ""))), <<"text">>)
    ELSE LET r == ParseSwapV6Response(JsonOf(resp.text))
         IN  Returns(IF r.ok THEN OutOk(r.val) ELSE OutErr(JsonParse(r.err)),
                     <<"text", "from_str::<SwapV6Response>">>)

----------------------------------------------------------------------------
(* The state machine: a caller that creates a builder, calls its setters   *)
(* and build, and hands the built request description to swap or swap_v6.  *)

\* The client of the calls: swap.rs reads its network_id for the URL, its
\* http_client for the GET and its token for the Authorization header.
ClientConfig == [token |-> "Bearer key", network_id |-> 1, http_client |-> "reqwest::Client"]

Tasks == 1..NumTasks
\* A task that has not called the client yet.  request is the description the
\* task hands to its call, sent is the GET the call issued.
NoSent == [network_id |-> 0, token |-> "", params |-> <<>>]
IdleTask ==
    [pc |-> "idle", call |-> "none", request |-> NoDetails, params |-> <<>>,
     sent |-> NoSent, response |-> NoResponse, outcome |-> NoOutcome]

Init ==
    /\ builder = NoBuilder
    /\ ret = NoError
    /\ details = NoDetails
    /\ pc = "idle"
    /\ call = "none"
    /\ params = <<>>
    /\ response = NoResponse
    /\ effects = <<>>
    /\ outcome = NoOutcome
    /\ client = ClientConfig
    /\ tasks = [t \in Tasks |-> IdleTask]

\* The caller is not inside a client call.
AtRest == pc \in {"idle", "done"}

\* A fresh pipeline run: whatever the caller held from the last one is dropped.
Fresh(b) ==
    /\ AtRest
    /\ builder' = b
    /\ ret' = NoError
    /\ details' = NoDetails
    /\ pc' = "idle"
    /\ call' = "none"
    /\ params' = <<>>
    /\ response' = NoResponse
    /\ effects' = <<>>
    /\ outcome' = NoOutcome
    /\ UNCHANGED <<client, tasks>>

NewSwapDetailsBuilder == Fresh(SwapDetailsBuilder_new)
NewSwapDetailsV6Builder == Fresh(SwapDetailsV6Builder_new)
NewQuoteDetailsBuilder == Fresh(QuoteDetailsBuilder_new)

\* Variant of SetterReturns: the caller still holds the accumulator after Err.
SetterReturns_keeping(r) ==
    /\ builder' = IF r.ok THEN r.val ELSE builder
    /\ ret' = r.err
    /\ UNCHANGED <<details, pc, call, params, response, effects, outcome, client, tasks>>

\* A setter returned r: on Ok the caller holds the returned accumulator, on
\* Err the accumulator went with the call.
SetterReturns(r) ==
    /\ builder' = IF r.ok THEN r.val ELSE NoBuilder
    /\ ret' = r.err
    /\ UNCHANGED <<details, pc, call, params, response, effects, outcome, client, tasks>>

\* build returned r: the accumulator is consumed either way.
BuildReturns(r) ==
    /\ builder' = NoBuilder
    /\ ret' = r.err
    /\ details' = IF r.ok THEN r.val ELSE NoDetails
    /\ UNCHANGED <<pc, call, params, response, effects, outcome, client, tasks>>

\* A setter generated by builder_setter!, of any of the three builders.
PlainSetter(type, field, v) ==
    /\ builder.type = type
    /\ field \in FieldsOf(type) \ {"fee", "slippage"}
    /\ WithinBound(builder, field)
    /\ SetterReturns(Ok(builder_setter(builder, field, v)))

SetSwapDetailsBuilder ==
    \E field \in FieldsOf("SwapDetailsBuilder") \ {"fee", "slippage"} :
        \E v \in InputsOf(field) : PlainSetter("SwapDetailsBuilder", field, v)
SetSwapDetailsV6Builder ==
    \E field \in FieldsOf("SwapDetailsV6Builder") \ {"fee", "slippage"} :
        \E v \in InputsOf(field) : PlainSetter("SwapDetailsV6Builder", field, v)
SetQuoteDetailsBuilder ==
    \E field \in FieldsOf("QuoteDetailsBuilder") \ {"fee", "slippage"} :
        \E v \in InputsOf(field) : PlainSetter("QuoteDetailsBuilder", field, v)

FeeSwapDetailsBuilder(fee) ==
    /\ builder.type = "SwapDetailsBuilder"
    /\ WithinBound(builder, "fee")
    /\ SetterReturns(SwapDetailsBuilder_fee(builder, fee))
FeeSwapDetailsV6Builder(fee) ==
    /\ builder.type = "SwapDetailsV6Builder"
    /\ WithinBound(builder, "fee")
    /\ SetterReturns(SwapDetailsV6Builder_fee(builder, fee))
FeeQuoteDetailsBuilder(fee) ==
    /\ builder.type = "QuoteDetailsBuilder"
    /\ WithinBound(builder, "fee")
    /\ SetterReturns(QuoteDetailsBuilder_fee(builder, fee))

SlippageSwapDetailsBuilder(slippage) ==
    /\ builder.type = "SwapDetailsBuilder"
    /\ SetterReturns(SwapDetailsBuilder_slippage(builder, slippage))
SlippageSwapDetailsV6Builder(slippage) ==
    /\ builder.type = "SwapDetailsV6Builder"
    /\ SetterReturns(SwapDetailsV6Builder_slippage(builder, slippage))

BuildSwapDetailsBuilder ==
    /\ builder.type = "SwapDetailsBuilder"
    /\ BuildReturns(SwapDetailsBuilder_build(builder))
BuildSwapDetailsV6Builder ==
    /\ builder.type = "SwapDetailsV6Builder"
    /\ BuildReturns(SwapDetailsV6Builder_build(builder))
BuildQuoteDetailsBuilder ==
    /\ builder.type = "QuoteDetailsBuilder"
    /\ BuildReturns(QuoteDetailsBuilder_build(builder))

\* swap.rs 15-49 and 83-121: the call takes the request description and
\* assembles the parameters of its URL.
CallStarts(name, ps) ==
    /\ pc = "idle"
    /\ call' = name
    /\ params' = ps
    /\ details' = NoDetails
    /\ pc' = "send"
    /\ effects' = <<>>
    /\ UNCHANGED <<builder, ret, response, outcome, client, tasks>>

swap_start ==
    /\ details.type = "SwapDetails"
    /\ CallStarts("swap", swap_params(details.f))
swap_v6_start ==
    /\ details.type = "SwapDetailsV6"
    /\ CallStarts("swap_v6", swap_v6_params(details.f))

\* Variant of Send: a failed send is tried again.
Send_again(name) ==
    /\ pc = "send"
    /\ call = name
    /\ effects' = Append(effects, "GET")
    /\ \/ /\ pc' = "send"
          /\ UNCHANGED <<params, response>>
       \/ /\ \E r \in Responses : response' = r
          /\ params' = <<>>
          /\ pc' = "classify"
    /\ UNCHANGED <<builder, ret, details, call, outcome, client, tasks>>

\* swap.rs 51-54 and 123-126: one GET with the URL; the transport answers
\* with a response or fails.
Send(name) ==
    /\ pc = "send"
    /\ call = name
    /\ params' = <<>>
    /\ effects' = Append(effects, "GET")
    /\ \/ /\ outcome' = OutErr(Network(ReqwestError("request", "")))
          /\ pc' = "done"
          /\ UNCHANGED response
       \/ /\ \E r \in Responses : response' = r
          /\ pc' = "classify"
          /\ UNCHANGED outcome
    /\ UNCHANGED <<builder, ret, details, call, client, tasks>>

swap_send == Send("swap")
swap_v6_send == Send("swap_v6")

\* A step of the call after the response arrived.
Step(name, at, s, next) ==
    /\ pc = at
    /\ call = name
    /\ effects' = effects \o s.effects
    /\ outcome' = s.outcome
    /\ pc' = IF s.returned THEN "done" ELSE next
    /\ UNCHANGED <<builder, ret, details, call, params, response, client, tasks>>

swap_classify_step == Step("swap", "classify", swap_classify(response), "decode")
swap_v6_classify_step == Step("swap_v6", "classify", swap_v6_classify(response), "decode")
swap_decode_step == Step("swap", "decode", swap_decode(response), "done")
swap_v6_decode_step == Step("swap_v6", "decode", swap_v6_decode(response), "done")

Next ==
    \/ NewSwapDetailsBuilder
    \/ NewSwapDetailsV6Builder
    \/ NewQuoteDetailsBuilder
    \/ SetSwapDetailsBuilder
    \/ SetSwapDetailsV6Builder
    \/ SetQuoteDetailsBuilder
    \/ \E fee \in FeeInputs : FeeSwapDetailsBuilder(fee)
    \/ \E fee \in FeeInputs : FeeSwapDetailsV6Builder(fee)
    \/ \E fee \in FeeInputs : FeeQuoteDetailsBuilder(fee)
    \/ \E slippage \in SlippageInputs : SlippageSwapDetailsBuilder(slippage)
    \/ \E slippage \in SlippageInputs : SlippageSwapDetailsV6Builder(slippage)
    \/ BuildSwapDetailsBuilder
    \/ BuildSwapDetailsV6Builder
    \/ BuildQuoteDetailsBuilder
    \/ swap_start
    \/ swap_send
    \/ swap_classify_step
    \/ swap_decode_step
    \/ swap_v6_start
    \/ swap_v6_send
    \/ swap_v6_classify_step
    \/ swap_v6_decode_step

Spec == Init /\ [][Next]_vars

----------------------------------------------------------------------------
(* The swap pipelines with up to MaxOrderOptional optional fields set, one  *)
(* value for each field.                                                    *)

OrderInputsOf(field) ==
    CASE field = "slippage" -> {MaxSlippage}
      [] field = "fee" -> {MaxFee}
      [] field \in {"complexity_level", "parts", "main_route_parts", "gas_limit"} -> {10}
      [] field \in {"include_tokens_info", "include_protocols", "include_gas",
                    "disable_estimate", "allow_partial_fill", "use_permit2"} -> {TRUE}
      [] OTHER -> InputsOf(field)

OrderWithinBound(b, field) ==
    \/ field \in RequiredOf(b.type)
    \/ IsSome(b.f[field])
    \/ Cardinality(OptionalSet(b)) < MaxOrderOptional

OrderPlainSetter(type, field, v) ==
    /\ builder.type = type
    /\ OrderWithinBound(builder, field)
    /\ SetterReturns(Ok(builder_setter(builder, field, v)))

OrderSetSwapDetailsBuilder ==
    \E field \in FieldsOf("SwapDetailsBuilder") \ {"fee", "slippage"} :
        \E v \in OrderInputsOf(field) : OrderPlainSetter("SwapDetailsBuilder", field, v)
OrderSetSwapDetailsV6Builder ==
    \E field \in FieldsOf("SwapDetailsV6Builder") \ {"fee", "slippage"} :
        \E v \in OrderInputsOf(field) : OrderPlainSetter("SwapDetailsV6Builder", field, v)

OrderFeeSwapDetailsBuilder(fee) ==
    /\ builder.type = "SwapDetailsBuilder"
    /\ OrderWithinBound(builder, "fee")
    /\ SetterReturns(SwapDetailsBuilder_fee(builder, fee))
OrderFeeSwapDetailsV6Builder(fee) ==
    /\ builder.type = "SwapDetailsV6Builder"
    /\ OrderWithinBound(builder, "fee")
    /\ SetterReturns(SwapDetailsV6Builder_fee(builder, fee))

OrderNext ==
    \/ NewSwapDetailsBuilder
    \/ NewSwapDetailsV6Builder
    \/ OrderSetSwapDetailsBuilder
    \/ OrderSetSwapDetailsV6Builder
    \/ \E fee \in OrderInputsOf("fee") : OrderFeeSwapDetailsBuilder(fee)
    \/ \E fee \in OrderInputsOf("fee") : OrderFeeSwapDetailsV6Builder(fee)
    \/ \E slippage \in OrderInputsOf("slippage") : SlippageSwapDetailsBuilder(slippage)
    \/ \E slippage \in OrderInputsOf("slippage") : SlippageSwapDetailsV6Builder(slippage)
    \/ BuildSwapDetailsBuilder
    \/ BuildSwapDetailsV6Builder
    \/ swap_start
    \/ swap_send
    \/ swap_classify_step
    \/ swap_decode_step
    \/ swap_v6_start
    \/ swap_v6_send
    \/ swap_v6_classify_step
    \/ swap_v6_decode_step

SpecOrder == Init /\ [][OrderNext]_vars

----------------------------------------------------------------------------
(* Calls running concurrently on one client.  swap and swap_v6 take &self   *)
(* and their details by value; each task's call has its own params,        *)
(* response and result, and awaits at the send.                            *)

\* The accumulators with every required field set, and the request
\* descriptions the tasks hand to their calls.
FilledSwapDetailsBuilder ==
    SwapDetailsBuilder_slippage(
        builder_setter(builder_setter(builder_setter(builder_setter(
            SwapDetailsBuilder_new, "src", "A"), "dst", "B"), "amount", "1000"),
            "from_addr", "0xabc"),
        MaxSlippage).val
FilledSwapDetailsV6Builder ==
    SwapDetailsV6Builder_slippage(
        builder_setter(builder_setter(builder_setter(builder_setter(builder_setter(
            SwapDetailsV6Builder_new, "src", "A"), "dst", "B"), "amount", "1000"),
            "from", "0xabc"), "origin", "0xdef"),
        MaxSlippage).val
RequestInputs ==
    {SwapDetailsBuilder_build(FilledSwapDetailsBuilder).val,
     SwapDetailsV6Builder_build(FilledSwapDetailsV6Builder).val,
     SwapDetailsV6Builder_build(
         builder_setter(FilledSwapDetailsV6Builder, "use_permit2", TRUE)).val}
\* The responses the transport gives the tasks.
ConcurrentResponses ==
    {[status |-> 200, readable |-> TRUE, text |-> Docs[9].text],
     [status |-> 200, readable |-> TRUE, text |-> Docs[10].text],
     [status |-> 400, readable |-> TRUE, text |-> Docs[1].text],
     [status |-> 400, readable |-> TRUE, text |-> Docs[10].text]}

\* Task t takes the step that turns its own record into next.
TaskStep(t, next) ==
    /\ tasks' = [tasks EXCEPT ![t] = next]
    /\ UNCHANGED <<builder, ret, details, pc, call, params, response, effects,
                   outcome, client>>

\* swap.rs 15-49 and 83-121 in task t.
TaskStarts(t, name, d, ps) ==
    /\ tasks[t].pc = "idle"
    /\ TaskStep(t, [tasks[t] EXCEPT !.pc = "send", !.call = name, !.request = d,
                                    !.params = ps])
task_swap_start(t) ==
    \E d \in RequestInputs :
        /\ d.type = "SwapDetails"
        /\ TaskStarts(t, "swap", d, swap_params(d.f))
task_swap_v6_start(t) ==
    \E d \in RequestInputs :
        /\ d.type = "SwapDetailsV6"
        /\ TaskStarts(t, "swap_v6", d, swap_v6_params(d.f))

\* Variant of TaskSend: the response is received into a buffer shared with
\* the calls that are still classifying theirs.
TaskSend_shared_buffer(t) ==
    /\ tasks[t].pc = "send"
    /\ \E r \in ConcurrentResponses :
           tasks' = [u \in Tasks |->
                        IF u = t
                        THEN [tasks[t] EXCEPT
                                 !.sent = [network_id |-> client.network_id,
                                           token |-> client.token,
                                           params |-> tasks[t].params],
                                 !.params = <<>>, !.response = r, !.pc = "classify"]
                        ELSE IF tasks[u].pc = "classify"
                        THEN [tasks[u] EXCEPT !.response = r]
                        ELSE tasks[u]]
    /\ UNCHANGED <<builder, ret, details, pc, call, params, response, effects,
                   outcome, client>>

\* swap.rs 51-54 and 123-126 in task t: the GET goes to the URL of the
\* client's network with the client's token, and the task awaits the answer.
TaskSend(t) ==
    /\ tasks[t].pc = "send"
    /\ LET issued == [tasks[t] EXCEPT
                         !.sent = [network_id |-> client.network_id,
                                   token |-> client.token,
                                   params |-> tasks[t].params],
                         !.params = <<>>]
       IN  \/ TaskStep(t, [issued EXCEPT
                              !.outcome = OutErr(Network(ReqwestError("request", ""))),
                              !.pc = "done"])
           \/ \E r \in ConcurrentResponses :
                  TaskStep(t, [issued EXCEPT !.response = r, !.pc = "classify"])

\* swap.rs 56-72 and 128-144 in task t.
TaskClassify(t) ==
    /\ tasks[t].pc = "classify"
    /\ LET s == IF tasks[t].call = "swap"
                THEN swap_classify(tasks[t].response)
                ELSE swap_v6_classify(tasks[t].response)
       IN  TaskStep(t, [tasks[t] EXCEPT
                           !.outcome = s.outcome,
                           !.pc = IF s.returned THEN "done" ELSE "decode"])

\* swap.rs 74-79 and 146-157 in task t.
TaskDecode(t) ==
    /\ tasks[t].pc = "decode"
    /\ LET s == IF tasks[t].call = "swap"
                THEN swap_decode(tasks[t].response)
                ELSE swap_v6_decode(tasks[t].response)
       IN  TaskStep(t, [tasks[t] EXCEPT !.outcome = s.outcome, !.pc = "done"])

ConcurrentNext ==
    \/ \E t \in Tasks : task_swap_start(t)
    \/ \E t \in Tasks : task_swap_v6_start(t)
    \/ \E t \in Tasks : TaskSend(t)
    \/ \E t \in Tasks : TaskClassify(t)
    \/ \E t \in Tasks : TaskDecode(t)

SpecConcurrent == Init /\ [][ConcurrentNext]_vars

----------------------------------------------------------------------------
(* Properties of the Response Classifier and the Response Decoders *)

\* The running call has returned after receiving a response.
Answered == pc = "done" /\ response # NoResponse
\* The body of the response can be read and deserializes as SwapRequestError.
StructuredBody == response.readable /\ from_str_SwapRequestError(response.text).ok
\* The document of the response's body.
BodyDoc == JsonOf(response.text).v
\* The call read and parsed the body as a structured error, once.
Rule1Effects == <<"GET", "text", "from_str::<SwapRequestError>">>
\* The effects of a call that reached its decoder.
DecoderEffects ==
    IF call = "swap" THEN {<<"GET", "json::<SwapResponse>">>}
    ELSE {<<"GET", "text">>, <<"GET", "text", "from_str::<SwapV6Response>">>}
\* A message embeds x when x is one of its formatted arguments.
Embeds(msg, x) == \E i \in DOMAIN msg.args : msg.args[i] = x

\* C1: a response with status 400 whose body parses as a Structured API Error
\* makes swap and swap_v6 fail with a swap-request error whose description,
\* error label, status code and request id are the four values of the body,
\* with or without the meta list.
C1_Structured400 ==
    (Answered /\ response.status = 400 /\ StructuredBody) =>
        /\ ~outcome.ok
        /\ outcome.error.type = "SwapError"
        /\ outcome.error.variant = "SwapRequest"
        /\ outcome.error.description = BodyDoc.description.v
        /\ outcome.error.error = BodyDoc.error.v
        /\ outcome.error.status_code = BodyDoc.statusCode.v
        /\ outcome.error.request_id = BodyDoc.requestId.v

C1_Witness ==
    /\ Answered
    /\ call = "swap_v6"
    /\ response.status = 400
    /\ outcome.error.variant = "SwapRequest"
    /\ "meta" \in DOMAIN BodyDoc
    /\ outcome.error.status_code = 422
    /\ outcome.error.request_id = "r-2"

\* C2 as stated: a response with status 400 whose body does not parse as a
\* Structured API Error makes the call fail with an Other error that embeds the
\* parse failure and the raw body, after a single decode of the body.
C2_EmbedsFailureAndRawBody ==
    (Answered /\ response.status = 400 /\ ~StructuredBody) =>
        /\ ~outcome.ok
        /\ outcome.error.variant = "Other"
        /\ Embeds(outcome.error.msg,
                  from_str_SwapRequestError(text_unwrap_or_default(response)).err)
        /\ Embeds(outcome.error.msg, text_unwrap_or_default(response))
        /\ effects = Rule1Effects

\* C2 amended: a response with status 400 whose body does not parse as a
\* Structured API Error makes the call fail with an Other error whose message
\* embeds the parse failure and nothing else (the raw body is not in it), after
\* a single decode of the body.
C2_EmbedsFailureOnly ==
    (Answered /\ response.status = 400 /\ ~StructuredBody) =>
        /\ ~outcome.ok
        /\ outcome.error.type = "SwapError"
        /\ outcome.error.variant = "Other"
        /\ outcome.error.msg.template = "Error parsing error response: {}"
        /\ outcome.error.msg.args =
               <<from_str_SwapRequestError(text_unwrap_or_default(response)).err>>
        /\ effects = Rule1Effects

C2_Witness ==
    /\ Answered
    /\ call = "swap"
    /\ response.status = 400
    /\ response.readable
    /\ response.text = "<html>Bad Request</html>"
    /\ outcome.error.variant = "Other"

\* The canonical reasons a status may be displayed with.
ReasonPhrases == {canonical_reason(s) : s \in Statuses}

\* C3: for every status in 4xx other than 400 and every status in 5xx the call
\* fails with an Other error embedding the numeric status code, without reading
\* or parsing the body, and never with a swap-request error.
C3_OtherErrorStatus ==
    (Answered /\ response.status # 400 /\ response.status \in 400..599) =>
        /\ ~outcome.ok
        /\ outcome.error.type = "SwapError"
        /\ outcome.error.variant = "Other"
        /\ \E reason \in ReasonPhrases :
               outcome.error.msg.args =
                   <<UIntToString(response.status) \o " " \o reason>>
        /\ effects = <<"GET">>

C3_Witness ==
    /\ Answered
    /\ call = "swap_v6"
    /\ response.status = 404
    /\ response.readable
    /\ from_str_SwapRequestError(response.text).ok
    /\ outcome.error.msg.args = <<"404 Not Found">>

\* Which rule of the classifier produced the effects and the result.
Rule1Fired == effects = Rule1Effects
Rule2Fired ==
    /\ effects = <<"GET">>
    /\ outcome.error.variant = "Other"
    /\ outcome.error.msg.template = "Server responded with error: {}"
Rule3Fired == effects \in DecoderEffects

\* C4: for every response received, rule 1 fires exactly when the status is
\* 400, rule 2 exactly when it is another 4xx or a 5xx status, and the decoder
\* is reached exactly when it is neither; exactly one of the three happens; on
\* the way, the decoder position is only reached with such a status; and a body
\* of the expected shape under a success status yields the decoded value.
C4_ClassifierOrder ==
    /\ (pc = "decode" => response.status \notin 400..599)
    /\ Answered =>
        /\ Rule1Fired <=> response.status = 400
        /\ Rule2Fired <=> (response.status # 400 /\ response.status \in 400..599)
        /\ Rule3Fired <=> response.status \notin 400..599
        /\ (call = "swap" /\ response.status = 200 /\ response.readable
                /\ response.text = Docs[9].text) =>
               /\ outcome.ok
               /\ Unwrap(outcome.data).to_amount = "999"
               /\ Unwrap(outcome.data).transaction.gas = 21000
        /\ (call = "swap_v6" /\ response.status = 200 /\ response.readable
                /\ response.text = Docs[10].text) =>
               /\ outcome.ok
               /\ Unwrap(outcome.data).dst_amount = "998"
               /\ Unwrap(outcome.data).transaction.to = "0xdef"

C4_Witness ==
    /\ Answered
    /\ call = "swap"
    /\ response.status = 200
    /\ outcome.ok
    /\ Unwrap(outcome.data).to_amount = "999"
    /\ effects = <<"GET", "json::<SwapResponse>">>

\* C5 as stated: when a response with a success status has a readable body
\* that does not decode into the expected shape, swap and swap_v6 both fail
\* with the JsonParse error, not the Network error.
C5_DecodeFailureIsJsonParse ==
    (Answered /\ response.status \notin 400..599 /\ response.readable /\ ~outcome.ok) =>
        /\ outcome.error.type = "SwapError"
        /\ outcome.error.variant = "JsonParse"
        /\ outcome.error.variant # "Network"

----------------------------------------------------------------------------
(* Properties of the Request Builders and of the Parameter Assembler *)

\* The required fields of each builder in the order build checks them, as the
\* MissingField error names them.
SwapBuildOrder == <<"src", "dst", "amount", "from_addr", "slippage">>
SwapV6BuildOrder == <<"src", "dst", "amount", "from", "origin", "slippage">>
QuoteBuildOrder == <<"src", "dst", "amount">>

\* Some required field of the accumulator is unset; the first such in order.
SomeUnset(b, order) == \E i \in DOMAIN order : b.f[order[i]] = None
FirstUnset(b, order) ==
    order[CHOOSE i \in DOMAIN order :
              /\ b.f[order[i]] = None
              /\ \A k \in 1..(i - 1) : b.f[order[k]] # None]

\* What a failed build leaves: the error naming the field, no request
\* description, no accumulator.
BuildFailsNaming(enum, field) ==
    /\ ret' = [enum |-> enum, variant |-> "MissingField", field |-> field]
    /\ details' = NoDetails
    /\ builder' = NoBuilder

\* C6: when at least one required field is unset, build fails with a
\* missing-field error naming the first unset required field in the order src,
\* dst, amount, from, origin (v6), slippage (swap builders), whatever setters
\* were called before.
C6_BuildNamesFirstMissing ==
    [][/\ (BuildSwapDetailsBuilder /\ SomeUnset(builder, SwapBuildOrder)) =>
              BuildFailsNaming("SwapDetailsBuilderError",
                               FirstUnset(builder, SwapBuildOrder))
       /\ (BuildSwapDetailsV6Builder /\ SomeUnset(builder, SwapV6BuildOrder)) =>
              BuildFailsNaming("SwapDetailsBuilderError",
                               FirstUnset(builder, SwapV6BuildOrder))
       /\ (BuildQuoteDetailsBuilder /\ SomeUnset(builder, QuoteBuildOrder)) =>
              BuildFailsNaming("QuoteDetailsBuilderError",
                               FirstUnset(builder, QuoteBuildOrder))]_vars

C6_Witness ==
    /\ ret = SwapDetailsBuilderError("MissingField", "origin")
    /\ builder = NoBuilder
    /\ details = NoDetails

\* The slippage-range and fee-range errors.
IsInvalidSlippage(e) == e = SwapDetailsBuilderError("InvalidSlippage", "")
IsInvalidFee(e) ==
    /\ e.variant = "InvalidFee"
    /\ e.enum \in {"SwapDetailsBuilderError", "QuoteDetailsBuilderError"}

\* A call of the slippage setter of either swap builder with the value v.
SlippageCalled(v) == SlippageSwapDetailsBuilder(v) \/ SlippageSwapDetailsV6Builder(v)
\* A call of the fee setter of any builder with the value v.
FeeCalled(v) ==
    FeeSwapDetailsBuilder(v) \/ FeeSwapDetailsV6Builder(v) \/ FeeQuoteDetailsBuilder(v)

\* C7 as stated: a slippage above 50 makes the setter fail with the
\* slippage-range error and leaves the caller with the accumulator unchanged;
\* a slippage from 0 to 50 is stored.
C7_FailedSlippageKeepsAccumulator ==
    [][\A v \in SlippageInputs :
           SlippageCalled(v) =>
               IF v > 50
               THEN IsInvalidSlippage(ret') /\ builder' = builder
               ELSE /\ ret' = NoError
                    /\ builder' = [builder EXCEPT !.f.slippage = Some(v)]]_vars

\* C7 amended: a slippage above 50 makes the setter fail with the
\* slippage-range error and stores nothing; the accumulator, taken by value, is
\* consumed by the failed call and the caller is left with the error alone; a
\* slippage from 0 to 50 is stored and every other field keeps its value.
C7_FailedSlippageConsumesAccumulator ==
    [][\A v \in SlippageInputs :
           SlippageCalled(v) =>
               IF v > 50
               THEN IsInvalidSlippage(ret') /\ builder' = NoBuilder
               ELSE /\ ret' = NoError
                    /\ builder' = [builder EXCEPT !.f.slippage = Some(v)]]_vars

C7_Witness ==
    /\ IsInvalidSlippage(ret)
    /\ builder = NoBuilder
    /\ details = NoDetails

\* C8: a fee above 3 makes the fee setter of the three builders fail with the
\* fee-range error without storing the value; a fee from 0 to 3 is stored.
C8_FeeRange ==
    [][\A v \in FeeInputs :
           FeeCalled(v) =>
               IF v > 3
               THEN IsInvalidFee(ret') /\ builder' = NoBuilder
               ELSE /\ ret' = NoError
                    /\ builder' = [builder EXCEPT !.f.fee = Some(v)]]_vars

C8_Witness ==
    /\ IsInvalidFee(ret)
    /\ ret.enum = "QuoteDetailsBuilderError"
    /\ builder = NoBuilder

\* The required fields of each request description.
RequiredOfDetails(type) ==
    CASE type = "SwapDetails" -> {"src", "dst", "amount", "from", "slippage"}
      [] type = "SwapDetailsV6" -> {"src", "dst", "amount", "from", "origin", "slippage"}
      [] type = "QuoteDetails" -> {"src", "dst", "amount"}

\* C9: every request description a build returned has each required field of
\* its version present, slippage in 0..50 and fee absent or in 0..3.
C9_BuiltRequestInRange ==
    details.type # "none" =>
        /\ RequiredOfDetails(details.type) \subseteq DOMAIN details.f
        /\ \A x \in RequiredOfDetails(details.type) \ {"slippage"} :
               details.f[x] \in InputsOf(x)
        /\ details.type # "QuoteDetails" => details.f.slippage \in 0..50
        /\ details.f.fee = None \/ Unwrap(details.f.fee) \in 0..3

C9_Witness ==
    /\ details.type = "SwapDetailsV6"
    /\ details.f.slippage = 50
    /\ details.f.fee = Some(3)

\* The optional fields of a request description are all unset.
NoOptional(d) == \A x \in DOMAIN d.f \ RequiredOfDetails(d.type) : d.f[x] = None
\* Base-10 text of the slippages a request description can hold.
SlippageText(n) == CASE n = 0 -> "0" [] n = 50 -> "50"

\* C10: with every required field set and every optional field unset build
\* succeeds, and the parameters assembled from the result are exactly from,
\* slippage, src, dst, amount (then origin for v6), in this order, each with the
\* value given to the builder, slippage in base 10.
C10_RequiredOnlyParams ==
    [][/\ (BuildSwapDetailsBuilder /\ ~SomeUnset(builder, SwapBuildOrder)) =>
              /\ ret' = NoError
              /\ details'.type = "SwapDetails"
              /\ details'.f.from = Unwrap(builder.f.from_addr)
              /\ \A x \in {"src", "dst", "amount", "slippage"} :
                     details'.f[x] = Unwrap(builder.f[x])
       /\ (BuildSwapDetailsV6Builder /\ ~SomeUnset(builder, SwapV6BuildOrder)) =>
              /\ ret' = NoError
              /\ details'.type = "SwapDetailsV6"
              /\ \A x \in {"src", "dst", "amount", "from", "origin", "slippage"} :
                     details'.f[x] = Unwrap(builder.f[x])
       /\ (swap_start /\ NoOptional(details)) =>
              params' = << <<"from", details.f.from>>,
                           <<"slippage", SlippageText(details.f.slippage)>>,
                           <<"src", details.f.src>>,
                           <<"dst", details.f.dst>>,
                           <<"amount", details.f.amount>> >>
       /\ (swap_v6_start /\ NoOptional(details)) =>
              params' = << <<"from", details.f.from>>,
                           <<"slippage", SlippageText(details.f.slippage)>>,
                           <<"src", details.f.src>>,
                           <<"dst", details.f.dst>>,
                           <<"amount", details.f.amount>>,
                           <<"origin", details.f.origin>> >>]_vars

C10_Witness ==
    /\ pc = "send"
    /\ call = "swap_v6"
    /\ params = << <<"from", "0xabc">>, <<"slippage", "50">>, <<"src", "A">>,
                   <<"dst", "B">>, <<"amount", "1000">>, <<"origin", "0xdef">> >>

----------------------------------------------------------------------------
(* Properties of the optional parameters *)

\* The query name of each optional field (spec.md section 6).
ParamName(x) ==
    CASE x = "disable_estimate" -> "disableEstimate"
      [] x = "allow_partial_fill" -> "allowPartialFill"
      [] x = "include_gas" -> "includeGas"
      [] x = "include_protocols" -> "includeProtocols"
      [] x = "include_tokens_info" -> "includeTokensInfo"
      [] x = "fee" -> "fee"
      [] x = "complexity_level" -> "complexityLevel"
      [] x = "parts" -> "parts"
      [] x = "main_route_parts" -> "mainRouteParts"
      [] x = "gas_limit" -> "gasLimit"
      [] x = "protocols" -> "protocols"
      [] x = "gas_price" -> "gasPrice"
      [] x = "connector_tokens" -> "connectorTokens"
      [] x = "permit" -> "permit"
      [] x = "receiver" -> "receiver"
      [] x = "referrer" -> "referrer"
      [] x = "use_permit2" -> "usePermit2"

BoolFields ==
    {"disable_estimate", "allow_partial_fill", "include_gas", "include_protocols",
     "include_tokens_info", "use_permit2"}
NumberFields == {"fee", "complexity_level", "parts", "main_route_parts", "gas_limit"}

\* Base-10 text of the numbers an optional field can hold.
NumberText(n) == CASE n = 0 -> "0" [] n = 3 -> "3" [] n = 10 -> "10"

\* The canonical string form of the value v of the optional field x.
Canonical(x, v) ==
    IF x \in BoolFields THEN (IF v THEN "true" ELSE "false")
    ELSE IF x \in NumberFields THEN NumberText(v)
    ELSE v

\* The optional fields of a request description, and those that are set.
OptionalOfDetails(d) == DOMAIN d.f \ RequiredOfDetails(d.type)
OptionalSetOfDetails(d) == {x \in OptionalOfDetails(d) : d.f[x] # None}
\* The positions of a parameter sequence that carry the name.
Positions(ps, name) == {i \in DOMAIN ps : ps[i][1] = name}

\* The parameters ps are assembled from d as the optional fields require.
OptionalPairsOf(d, ps) ==
    /\ \A x \in OptionalOfDetails(d) :
           IF d.f[x] = None
           THEN Positions(ps, ParamName(x)) = {}
           ELSE /\ Cardinality(Positions(ps, ParamName(x))) = 1
                /\ \A i \in Positions(ps, ParamName(x)) :
                       ps[i][2] = Canonical(x, Unwrap(d.f[x]))
    /\ {ps[i][1] : i \in DOMAIN ps} \ {"from", "slippage", "src", "dst", "amount", "origin"}
           = {ParamName(x) : x \in OptionalSetOfDetails(d)}

\* C11: for every request description handed to swap or swap_v6 and every
\* optional field, an unset field has no pair of its name in the assembled
\* parameters and a set field has exactly one, carrying the canonical string of
\* its value; the optional names in the parameters are exactly those of the
\* fields that are set.
C11_OptionalPairs ==
    [][(swap_start \/ swap_v6_start) => OptionalPairsOf(details, params')]_vars

C11_Witness ==
    /\ pc = "send"
    /\ call = "swap"
    /\ params = << <<"from", "0xabc">>, <<"slippage", "0">>, <<"src", "A">>,
                   <<"dst", "B">>, <<"amount", "1000">>,
                   <<"allowPartialFill", "false">> >>

----------------------------------------------------------------------------
(* Properties of the two success decoders *)

\* The call reached its decoder with a body that is a JSON object.
DecodedObject ==
    /\ Answered
    /\ ~is_client_error(response.status)
    /\ ~is_server_error(response.status)
    /\ response.readable
    /\ JsonOf(response.text).t = "object"
\* The body's document has the string member k.
HasString(k) == k \in DOMAIN BodyDoc /\ BodyDoc[k].t = "string"
\* The body's document has a tx member with every field of the transaction.
HasCompleteTx == "tx" \in DOMAIN BodyDoc /\ BodyDoc.tx = TxJson
\* The body's document has none of fromToken, toToken, protocols.
NoTokensNoProtocols == DOMAIN BodyDoc \cap {"fromToken", "toToken", "protocols"} = {}
\* The member of the body each call reads the amount from.
AmountKey == IF call = "swap" THEN "toAmount" ELSE "dstAmount"
\* The amount of the decoded response.
DecodedAmount ==
    IF call = "swap" THEN Unwrap(outcome.data).to_amount
    ELSE Unwrap(outcome.data).dst_amount

\* C12: a body with the amount under the call's own name (toAmount for swap,
\* dstAmount for swap_v6) and a complete tx is decoded, with that amount, even
\* when fromToken, toToken and protocols are absent; a body without that name
\* (so one that has only the other call's name) or without tx is rejected.
C12_AmountFieldAndTx ==
    DecodedObject =>
        /\ (HasString(AmountKey) /\ HasCompleteTx /\ NoTokensNoProtocols)
               => (outcome.ok /\ DecodedAmount = BodyDoc[AmountKey].v
                   /\ Unwrap(outcome.data).from_token = None
                   /\ Unwrap(outcome.data).to_token = None
                   /\ Unwrap(outcome.data).protocols = None)
        /\ AmountKey \notin DOMAIN BodyDoc => ~outcome.ok
        /\ "tx" \notin DOMAIN BodyDoc => ~outcome.ok

C12_Witness ==
    /\ DecodedObject
    /\ call = "swap_v6"
    /\ DOMAIN BodyDoc = {"dstAmount", "tx"}
    /\ HasCompleteTx
    /\ outcome.ok
    /\ Unwrap(outcome.data).dst_amount = "998"

----------------------------------------------------------------------------
(* Properties of the send *)

\* The number of HTTP requests the current call has issued.
Requests == Cardinality({i \in DOMAIN effects : effects[i] = "GET"})
\* The call is over and the transport never answered.
TransportFailed == pc = "done" /\ response = NoResponse

\* C13: a call whose send fails returns the network error of the send, with
\* the one GET as its only effect: no body is read, no classifier rule and no
\* decoder runs; and no call ever issues more than one HTTP request.
C13_SendFailsOnce ==
    /\ Requests <= 1
    /\ TransportFailed =>
           /\ outcome = OutErr(Network(ReqwestError("request", "")))
           /\ effects = <<"GET">>

C13_Witness ==
    /\ TransportFailed
    /\ call = "swap_v6"
    /\ outcome.error.variant = "Network"
    /\ Requests = 1

----------------------------------------------------------------------------
(* Properties of the order of construction and network *)

\* A checked setter or build of this pipeline run returned an error.
ConstructionFailed == ret # NoError
\* The names of the pairs every request carries.
RequiredNames == {"from", "slippage", "src", "dst", "amount"}
\* A step that starts a new pipeline run.
StartsFresh ==
    /\ builder' \in {SwapDetailsBuilder_new, SwapDetailsV6Builder_new,
                     QuoteDetailsBuilder_new}
    /\ ret' = NoError
    /\ details' = NoDetails
    /\ pc' = "idle"
    /\ effects' = <<>>

\* C14: once a checked setter or build of a pipeline run has failed, the run
\* holds neither an accumulator nor a request description and has issued no
\* HTTP request, and the only step left is to start a new run; an HTTP request
\* is issued only by a call that was given the request description of a
\* successful build.
C14_NoRequestAfterFailure ==
    [][/\ ConstructionFailed' =>
              /\ builder' = NoBuilder
              /\ details' = NoDetails
              /\ pc' = "idle"
              /\ effects' = <<>>
       /\ ConstructionFailed => StartsFresh
       /\ Requests' > Requests =>
              /\ ~ConstructionFailed
              /\ builder = NoBuilder
              /\ RequiredNames \subseteq {params[i][1] : i \in DOMAIN params}]_vars

C14_Witness ==
    /\ ConstructionFailed
    /\ ret.variant = "InvalidSlippage"
    /\ builder = NoBuilder
    /\ effects = <<>>

----------------------------------------------------------------------------
(* The legacy and the v6 swap builder side by side *)

\* The fields the two swap builders share, by their v6 names.
SharedFields == FieldsOf("SwapDetailsV6Builder") \ {"origin", "use_permit2"}
\* The legacy name of a shared field.
LegacyName(x) == IF x = "from" THEN "from_addr" ELSE x
\* The v6 accumulator after the setter calls that led the legacy accumulator
\* to b, followed by origin.
V6Twin(b) ==
    [type |-> "SwapDetailsV6Builder",
     f |-> [x \in FieldsOf("SwapDetailsV6Builder") |->
                IF x = "origin" THEN Some("0xdef")
                ELSE IF x = "use_permit2" THEN None
                ELSE b.f[LegacyName(x)]]]
\* A setter returned the same in both builders.
SameSetterResult(legacy, v6) ==
    /\ legacy.ok = v6.ok
    /\ legacy.err = v6.err
    /\ legacy.ok => v6.val = V6Twin(legacy.val)
\* build returned the same in both builders.
SameBuildResult(legacy, v6) ==
    /\ legacy.ok = v6.ok
    /\ legacy.err = v6.err
    /\ legacy.ok => \A x \in SharedFields : legacy.val.f[x] = v6.val.f[x]

\* C16: after the same setter calls (origin and use_permit2 apart, origin set
\* for v6) the fee setter, the slippage setter and build each return the same
\* from the legacy and from the v6 builder: both Ok or both Err, the same
\* error value, and on success the same shared fields.
C16_BuildersEquivalent ==
    builder.type = "SwapDetailsBuilder" =>
        /\ \A fee \in FeeInputs :
               SameSetterResult(SwapDetailsBuilder_fee(builder, fee),
                                SwapDetailsV6Builder_fee(V6Twin(builder), fee))
        /\ \A slippage \in SlippageInputs :
               SameSetterResult(SwapDetailsBuilder_slippage(builder, slippage),
                                SwapDetailsV6Builder_slippage(V6Twin(builder), slippage))
        /\ SameBuildResult(SwapDetailsBuilder_build(builder),
                           SwapDetailsV6Builder_build(V6Twin(builder)))

----------------------------------------------------------------------------
(* Properties of the order of the parameters *)

\* The names of the required pairs of each call, in the order they are sent.
RequiredOrder(type) ==
    IF type = "SwapDetails"
    THEN <<"from", "slippage", "src", "dst", "amount">>
    ELSE <<"from", "slippage", "src", "dst", "amount", "origin">>
\* The optional fields in the order their pairs are sent.
OptionalOrder ==
    <<"disable_estimate", "allow_partial_fill", "include_gas", "include_protocols",
      "include_tokens_info", "fee", "complexity_level", "parts", "main_route_parts",
      "gas_limit", "protocols", "gas_price", "connector_tokens", "permit", "receiver",
      "referrer", "use_permit2">>
\* The place of a query name among the optional parameters.
Rank(name) == CHOOSE k \in DOMAIN OptionalOrder : ParamName(OptionalOrder[k]) = name
\* The text a required field is sent as.
RequiredText(d, x) == IF x = "slippage" THEN SlippageText(d.f[x]) ELSE d.f[x]

\* The parameters ps are the required pairs of d in their order, followed by
\* the pairs of the optional fields d has set, in the fixed order.
ParamsInOrder(d, ps) ==
    LET required == RequiredOrder(d.type)
    IN  /\ Len(ps) = Len(required) + Cardinality(OptionalSetOfDetails(d))
        /\ \A i \in DOMAIN required :
               ps[i] = <<required[i], RequiredText(d, required[i])>>
        /\ OptionalPairsOf(d, ps)
        /\ \A i, j \in DOMAIN ps :
               (Len(required) < i /\ i < j) => Rank(ps[i][1]) < Rank(ps[j][1])

\* C17: the parameters a call assembles are determined by the field values of
\* the request description alone, whatever the order of the setter calls that
\* produced it: the required pairs first, in their order, then one pair for
\* each optional field that is set, in the fixed order, usePermit2 last.
C17_ParamsDependOnValuesOnly ==
    [][(swap_start \/ swap_v6_start) => ParamsInOrder(details, params')]_vars

C17_Witness ==
    /\ pc = "send"
    /\ call = "swap_v6"
    /\ params = << <<"from", "0xabc">>, <<"slippage", "50">>, <<"src", "A">>,
                   <<"dst", "B">>, <<"amount", "1000">>, <<"origin", "0xdef">>,
                   <<"fee", "3">>, <<"usePermit2", "true">> >>

----------------------------------------------------------------------------
(* Properties of concurrent calls *)

\* The outcome of a call that runs alone and whose transport answers with
\* resp (NoResponse: the send failed).
Alone(name, resp) ==
    IF resp = NoResponse THEN OutErr(Network(ReqwestError("request", "")))
    ELSE LET c == IF name = "swap" THEN swap_classify(resp) ELSE swap_v6_classify(resp)
             d == IF name = "swap" THEN swap_decode(resp) ELSE swap_v6_decode(resp)
         IN  IF c.returned THEN c.outcome ELSE d.outcome
\* The GET a call with the request description d issues when it runs alone.
SentAlone(d) ==
    [network_id |-> ClientConfig.network_id, token |-> ClientConfig.token,
     params |-> IF d.type = "SwapDetails" THEN swap_params(d.f) ELSE swap_v6_params(d.f)]

\* C15: in every interleaving of the calls of the tasks, each step leaves the
\* client as it was and changes the state of one call only; the GET of each
\* call carries the client's network and token and the parameters of the
\* call's own request description, and the outcome of each finished call is
\* the one the call produces alone on its own response.
C15_CallsDoNotInterfere ==
    [][/\ client' = client
       /\ \E t \in Tasks : \A u \in Tasks \ {t} : tasks'[u] = tasks[u]
       /\ \A t \in Tasks :
              /\ tasks'[t].pc \notin {"idle", "send"}
                     => tasks'[t].sent = SentAlone(tasks'[t].request)
              /\ tasks'[t].pc = "done"
                     => tasks'[t].outcome = Alone(tasks'[t].call, tasks'[t].response)]_vars

C15_Witness ==
    /\ tasks[1].pc = "decode"
    /\ tasks[1].call = "swap_v6"
    /\ tasks[2].pc = "done"
    /\ tasks[2].call = "swap_v6"
    /\ tasks[2].request # tasks[1].request
    /\ tasks[2].response # tasks[1].response
    /\ tasks[2].outcome.ok

====
